---- MODULE Spec2Model ----
(***************************************************************************)
(* audio.whisper: the R binding of the whisper speech-recognition engine   *)
(* (src/src/rcpp_whisper.cpp).                                             *)
(*                                                                         *)
(* The module models                                                       *)
(*   - the R session's model handles (whisper_load_model, the WhisperModel *)
(*     wrapper, garbage collection of the external pointer),               *)
(*   - whisper_encode as one atomic call: argument checks, WAV checks,     *)
(*     the multilingual fallback, the engine decode and the assembly of    *)
(*     the returned tables,                                                *)
(*   - the pure helpers to_timestamp and timestamp_to_sample,              *)
(*   - whisper_print_segment_callback (diarization label, colour index).   *)
(*                                                                         *)
(* The engine is an opaque collaborator: what it returns (whisper_init's   *)
(* context, the decode return code, the decoded segments and tokens) is an *)
(* input chosen from small sets.                                           *)
(***************************************************************************)
EXTENDS Integers, Sequences, FiniteSets, TLC

VARIABLES
    handles,    \* the WhisperModel objects created so far, in creation order
    freeCalls,  \* freeCalls[h]: number of whisper_free calls on handle h's context
    call,       \* the whisper_encode call the session last made (or none)
    ts,         \* to_timestamp: its argument and its returned string
    cb          \* whisper_print_segment_callback: its arguments and its output

vars == <<handles, freeCalls, call, ts, cb>>

(***************************************************************************)
(* Bounds of the model.                                                    *)
(***************************************************************************)
MaxHandles == 2      \* model handles a session creates
MaxSegments == 2     \* segments the engine decodes in one call
MaxTokens == 3       \* tokens the engine decodes in one call, all segments together
MaxTick == 120       \* to_timestamp is applied to every tick 0..MaxTick
MaxBlocks == 2       \* callback: length of a channel buffer, in 10 ms blocks
MaxSegTick == 3      \* callback: largest segment start/end tick
PDen == 4            \* callback: token probabilities are k/PDen, k in 0..PDen
MaxCbTokens == 2     \* callback: tokens of the printed segment

(***************************************************************************)
(* Program constants.                                                      *)
(***************************************************************************)
WHISPER_SAMPLE_RATE == 16000

\* lines 16-21: the terminal colour map, lowest (red) to highest (green)
k_colors ==
    <<"38;5;196m", "38;5;202m", "38;5;208m", "38;5;214m", "38;5;220m",
      "38;5;226m", "38;5;190m", "38;5;154m", "38;5;118m", "38;5;82m">>
k_colors_size == Len(k_colors)

Range(s) == {s[i] : i \in 1..Len(s)}

\* Sequences over S of length 0..n.
SeqUpTo(S, n) == UNION {[1..k -> S] : k \in 0..n}

(***************************************************************************)
(* to_timestamp (lines 23-38).  A tick count becomes "HH:MM:SS.mmm".       *)
(* printf's %02d / %03d pad with zeros to a minimum width and never        *)
(* truncate.  Ticks come from the engine and are non-negative.             *)
(***************************************************************************)
Digit(d) == SubSeq("0123456789", d + 1, d + 1)

RECURSIVE Decimal(_)
Decimal(n) == IF n < 10 THEN Digit(n) ELSE Decimal(n \div 10) \o Digit(n % 10)

RECURSIVE ZeroPad(_, _)
ZeroPad(s, width) == IF Len(s) >= width THEN s ELSE ZeroPad("0" \o s, width)

\* snprintf's "%0<width>d" of a non-negative int
FormatInt(n, width) == ZeroPad(Decimal(n), width)

\* A slip that forgets to take the hours out before computing the minutes.
to_timestamp_keeps_hours(t) ==
    LET msec0 == t * 10
        hr    == msec0 \div (1000 * 60 * 60)
        min   == msec0 \div (1000 * 60)
        msec2 == msec0 - min * (1000 * 60)
        sec   == msec2 \div 1000
        msec3 == msec2 - sec * 1000
    IN  FormatInt(hr, 2) \o ":" \o FormatInt(min, 2) \o ":" \o FormatInt(sec, 2)
            \o "." \o FormatInt(msec3, 3)

to_timestamp(t) ==
    LET msec0 == t * 10
        hr    == msec0 \div (1000 * 60 * 60)
        msec1 == msec0 - hr * (1000 * 60 * 60)
        min   == msec1 \div (1000 * 60)
        msec2 == msec1 - min * (1000 * 60)
        sec   == msec2 \div 1000
        msec3 == msec2 - sec * 1000
    IN  FormatInt(hr, 2) \o ":" \o FormatInt(min, 2) \o ":" \o FormatInt(sec, 2)
            \o "." \o FormatInt(msec3, 3)

Max(a, b) == IF a > b THEN a ELSE b
Min(a, b) == IF a < b THEN a ELSE b

\* timestamp_to_sample (lines 40-42)
timestamp_to_sample(t, n_samples) ==
    Max(0, Min(n_samples - 1, (t * WHISPER_SAMPLE_RATE) \div 100))

(***************************************************************************)
(* The engine, as far as the binding sees it.                              *)
(***************************************************************************)
NULL == "NULL"

\* What whisper_init can return: no context (missing or corrupt file), the
\* context of an English-only model, the context of a multilingual model.
WhisperInitResults == {NULL, "ctx_en_only", "ctx_multilingual"}

whisper_is_multilingual(ctx) == ctx = "ctx_multilingual"

\* The end-of-text sentinel of the model's vocabulary.
whisper_token_eot(ctx) == IF whisper_is_multilingual(ctx) THEN 50257 ELSE 50256

\* Language codes the callers pass: two the engine knows, one it does not.
Languages == {"en", "nl", "xx"}

whisper_lang_id(lang) ==
    CASE lang = "en" -> 0
      [] lang = "nl" -> 14
      [] OTHER       -> -1

\* The shape of one decode: for every segment, for every token, whether the
\* token is ordinary text or a special token (id >= end-of-text).
TokenKinds == {"text", "special"}
RECURSIVE TokenCount(_)
TokenCount(shape) == IF shape = <<>> THEN 0 ELSE Len(Head(shape)) + TokenCount(Tail(shape))

DecodeShapes ==
    {shape \in SeqUpTo(SeqUpTo(TokenKinds, MaxTokens), MaxSegments) :
        TokenCount(shape) <= MaxTokens}

\* Token j (from 0) of segment i (from 0) of a decode.
EngineToken(ctx, kind, i, j) ==
    [id   |-> IF kind = "text" THEN whisper_token_eot(ctx) - 1 - j
                               ELSE whisper_token_eot(ctx) + j,
     text |-> IF kind = "text" THEN " w" \o Digit(i) \o Digit(j)
                               ELSE "[_TT_" \o Digit(i) \o Digit(j) \o "]",
     p    |-> 900 - 100 * j,                    \* probability, in 1/1000
     t0   |-> 3000 * i + 10 * j,
     t1   |-> 3000 * i + 10 * (j + 1)]

RECURSIVE SegmentText(_, _, _)
SegmentText(tokens, eot, print_special) ==
    IF tokens = <<>> THEN ""
    ELSE LET tok == Head(tokens)
         IN  (IF print_special = FALSE /\ tok.id >= eot THEN "" ELSE tok.text)
                 \o SegmentText(Tail(tokens), eot, print_special)

\* The result state the engine leaves in the context after a decode of the
\* given shape: segments in emission order, 30 s each.
DecodedSegments(ctx, shape, print_special) ==
    [i \in 1..Len(shape) |->
        LET tokens == [j \in 1..Len(shape[i]) |->
                           EngineToken(ctx, shape[i][j], i - 1, j - 1)]
        IN  [t0     |-> 3000 * (i - 1),
             t1     |-> 3000 * i,
             text   |-> SegmentText(tokens, whisper_token_eot(ctx), print_special),
             tokens |-> tokens]]

(***************************************************************************)
(* WAV files the caller can name.                                          *)
(***************************************************************************)
WavFiles ==
    {[path |-> "missing.wav", opens |-> FALSE, channels |-> 0, sampleRate |-> 0,
      bitsPerSample |-> 0, totalPCMFrameCount |-> 0]}
    \cup
    [path : {"audio.wav"}, opens : {TRUE}, channels : {1, 2, 3},
     sampleRate : {WHISPER_SAMPLE_RATE, 44100}, bitsPerSample : {8, 16},
     totalPCMFrameCount : {2}]

(***************************************************************************)
(* Model handles (lines 185-205).                                          *)
(***************************************************************************)
\* The second argument of Rcpp::XPtr<WhisperModel> ptr(wp, false): whether the
\* external pointer gets a finalizer that deletes the WhisperModel.
set_delete_finalizer == FALSE

\* WhisperModel::WhisperModel: keeps whatever whisper_init returned.
WhisperModel(init_result) == [ctx |-> init_result]

\* whisper_load_model: new WhisperModel(model), wrapped in an external pointer.
whisper_load_model(init_result) ==
    [wp        |-> WhisperModel(init_result),
     finalizer |-> set_delete_finalizer,
     collected |-> FALSE]

\* WhisperModel::~WhisperModel: whisper_free(ctx).
WhisperModel_destructor(free, h) == [free EXCEPT ![h] = @ + 1]

(***************************************************************************)
(* whisper_encode (lines 208-445).                                         *)
(***************************************************************************)
\* struct whisper_params, with its default member initialisers (lines 55-81)
whisper_params ==
    [n_threads |-> 4, n_processors |-> 1, offset_t_ms |-> 0, duration_ms |-> 0,
     max_context |-> -1, max_len |-> 0, word_thold |-> "0.01",
     speed_up |-> FALSE, translate |-> FALSE, diarize |-> FALSE,
     output_wts |-> FALSE, print_special |-> FALSE, print_colors |-> FALSE,
     no_timestamps |-> FALSE, language |-> "en", fname_inp |-> <<>>]

\* lines 212-221: the caller's arguments copied into the parameter record
encode_params(path, language, translate, print_special, duration, offset, n_threads, n_processors) ==
    [whisper_params EXCEPT
        !.language = language, !.translate = translate,
        !.print_special = print_special, !.duration_ms = duration,
        !.offset_t_ms = offset, !.fname_inp = Append(@, path),
        !.n_threads = n_threads, !.n_processors = n_processors]

NoError == "no error"

\* A slip that accepts any channel count, sample rate and bit depth.
wav_format_error_unchecked(wav, params) == NoError

\* lines 252-266: the checks on an opened WAV file, in order; the message of
\* the first one that fails.
wav_format_error(wav, params) ==
    IF wav.channels # 1 /\ wav.channels # 2
        THEN "WAV file must be mono or stereo: "
    ELSE IF params.diarize /\ wav.channels # 2 /\ params.no_timestamps = FALSE
        THEN "WAV file must be stereo for diarization and timestamps have to be enabled: "
    ELSE IF wav.sampleRate # WHISPER_SAMPLE_RATE
        THEN "WAV file must be 16 kHz: "
    ELSE IF wav.bitsPerSample # 16
        THEN "WAV file must be 16 bit: "
    ELSE NoError

NoWarning == <<>>
MultilingualWarning ==
    "WARNING: model is not multilingual, ignoring language and translation options"

\* A slip that forces the language but leaves translation switched on.
multilingual_fallback_keeps_translate(multilingual, params) ==
    IF ~multilingual /\ (params.language # "en" \/ params.translate)
    THEN [params   |-> [params EXCEPT !.language = "en"],
          warnings |-> <<MultilingualWarning>>]
    ELSE [params |-> params, warnings |-> NoWarning]

\* lines 309-315: language and translation forced to the defaults for a model
\* that is not multilingual.
multilingual_fallback(multilingual, params) ==
    IF ~multilingual
    THEN IF params.language # "en" \/ params.translate
         THEN [params   |-> [params EXCEPT !.language = "en", !.translate = FALSE],
               warnings |-> <<MultilingualWarning>>]
         ELSE [params |-> params, warnings |-> NoWarning]
    ELSE [params |-> params, warnings |-> NoWarning]

\* lines 321-347: the engine's configuration record
full_params(params, token_timestamps, trace) ==
    [print_realtime   |-> trace,
     print_progress   |-> FALSE,
     print_timestamps |-> ~params.no_timestamps,
     print_special    |-> params.print_special,
     translate        |-> params.translate,
     language         |-> params.language,
     n_threads        |-> params.n_threads,
     offset_ms        |-> params.offset_t_ms,
     duration_ms      |-> params.duration_ms,
     token_timestamps |-> token_timestamps,
     thold_pt         |-> params.word_thold,
     max_len          |-> IF params.output_wts /\ params.max_len = 0
                          THEN 60 ELSE params.max_len,
     speed_up         |-> params.speed_up,
     new_segment_callback |-> IF ~trace THEN "whisper_print_segment_callback"
                                        ELSE "none"]

\* A slip that treats only negative return codes as failures.
decode_failed_negative_only(ret) == ret < 0

\* line 362: the decode failed
decode_failed(ret) == ret # 0

\* A slip that compares with > instead of >=.
token_skipped_strict(print_special, id, eot) == print_special = FALSE /\ id > eot

\* lines 389-394: a token left out of the token table
token_skipped(print_special, id, eot) == print_special = FALSE /\ id >= eot

\* A slip that numbers the rows from 0.
segment_number_from_zero(i) == i

\* lines 380, 397: the 1-based number of engine segment i
segment_number(i) == i + 1

\* lines 369-378: the vectors the result is collected in
empty_vectors(n_segments) ==
    [segment_nr                |-> <<>>,
     transcriptions            |-> [i \in 1..n_segments |-> ""],
     transcriptions_from       |-> [i \in 1..n_segments |-> ""],
     transcriptions_to         |-> [i \in 1..n_segments |-> ""],
     token_segment_nr          |-> <<>>,
     token_segment_text        |-> <<>>,
     token_segment_probability |-> <<>>,
     token_segment_from        |-> <<>>,
     token_segment_to          |-> <<>>]

\* lines 388-408: the loop over the tokens of engine segment i, from token j on
RECURSIVE token_loop(_, _, _, _, _, _, _)
token_loop(acc, segments, ctx, i, j, print_special, token_timestamps) ==
    IF ~(j < Len(segments[i + 1].tokens)) THEN acc
    ELSE LET token == segments[i + 1].tokens[j + 1]
             pushed == [acc EXCEPT
                 !.token_segment_nr          = Append(@, segment_number(i)),
                 !.token_segment_text        = Append(@, token.text),
                 !.token_segment_probability = Append(@, token.p),
                 !.token_segment_from        =
                     IF token_timestamps THEN Append(@, to_timestamp(token.t0)) ELSE @,
                 !.token_segment_to          =
                     IF token_timestamps THEN Append(@, to_timestamp(token.t1)) ELSE @]
         IN  IF token_skipped(print_special, token.id, whisper_token_eot(ctx))
             THEN token_loop(acc, segments, ctx, i, j + 1, print_special, token_timestamps)
             ELSE token_loop(pushed, segments, ctx, i, j + 1, print_special, token_timestamps)

\* lines 379-409: the loop over the engine's segments, from segment i on
RECURSIVE segment_loop(_, _, _, _, _, _, _)
segment_loop(acc, segments, ctx, i, n_segments, print_special, token_timestamps) ==
    IF ~(i < n_segments) THEN acc
    ELSE LET seg == segments[i + 1]
             row == [acc EXCEPT
                 !.segment_nr               = Append(@, segment_number(i)),
                 !.transcriptions[i + 1]      = seg.text,
                 !.transcriptions_from[i + 1] = to_timestamp(seg.t0),
                 !.transcriptions_to[i + 1]   = to_timestamp(seg.t1)]
         IN  segment_loop(
                 token_loop(row, segments, ctx, i, 0, print_special, token_timestamps),
                 segments, ctx, i + 1, n_segments, print_special, token_timestamps)

\* lines 410-425: the token table, with or without the timestamp columns
tokens_data_frame(acc, token_timestamps) ==
    IF token_timestamps
    THEN [segment    |-> acc.token_segment_nr,
          token      |-> acc.token_segment_text,
          token_prob |-> acc.token_segment_probability,
          token_from |-> acc.token_segment_from,
          token_to   |-> acc.token_segment_to]
    ELSE [segment    |-> acc.token_segment_nr,
          token      |-> acc.token_segment_text,
          token_prob |-> acc.token_segment_probability]

\* lines 428-443: the returned list, made of the collected vectors
output_list(acc, n_segments, params, path, offset, duration, token_timestamps) ==
    [n_segments |-> n_segments,
     data       |-> [segment |-> acc.segment_nr,
                     from    |-> acc.transcriptions_from,
                     to      |-> acc.transcriptions_to,
                     text    |-> acc.transcriptions],
     tokens     |-> tokens_data_frame(acc, token_timestamps),
     params     |-> [audio            |-> path,
                     language         |-> params.language,
                     offset           |-> offset,
                     duration         |-> duration,
                     translate        |-> params.translate,
                     token_timestamps |-> token_timestamps,
                     word_threshold   |-> params.word_thold]]

\* lines 369-444: the result is read back from the context and returned
encode_output(segments, ctx, params, path, offset, duration, token_timestamps) ==
    output_list(segment_loop(empty_vectors(Len(segments)), segments, ctx, 0, Len(segments), params.print_special, token_timestamps),
                Len(segments), params, path, offset, duration, token_timestamps)

\* What a call returns to the session: nothing, or the one list.
NoOutput == <<>>

\* How a call ended: "ok" (a list is returned), "stop" (Rcpp::stop: an R error,
\* nothing returned) or "crash" (an engine function was entered with no
\* context: the dereference of a null pointer ends the session).
Outcome(status, message, warnings, engine_calls, wav_inits, wav_uninits, ctx_segments, output) ==
    [status |-> status, message |-> message, warnings |-> warnings,
     engine_calls |-> engine_calls, wav_inits |-> wav_inits,
     wav_uninits |-> wav_uninits, ctx_segments |-> ctx_segments,
     output |-> output]

EngineCall(fn, ctx) == [fn |-> fn, ctx |-> ctx]
DecodeCall(ctx, wparams, n_samples, n_processors) ==
    [fn |-> "whisper_full_parallel", ctx |-> ctx, wparams |-> wparams,
     n_samples |-> n_samples, n_processors |-> n_processors]

\* whisper_encode.  model is the handle; engine is what the engine does in
\* this call if the decode is reached: its return code and the decode's shape.
whisper_encode(model, wav, language, token_timestamps, translate, print_special, duration, offset, trace, n_threads, n_processors, engine) ==
    LET params0 == encode_params(wav.path, language, translate, print_special,
                                 duration, offset, n_threads, n_processors)
        ctx     == model.wp.ctx
        lang_id == <<EngineCall("whisper_lang_id", "-")>>
    IN
    IF params0.fname_inp = <<>> THEN
        Outcome("stop", "error: no input files specified", NoWarning, <<>>,
                0, 0, <<>>, NoOutput)
    ELSE IF whisper_lang_id(params0.language) = -1 THEN
        Outcome("stop", "Unknown language", NoWarning, lang_id, 0, 0, <<>>, NoOutput)
    ELSE IF ~wav.opens THEN
        Outcome("stop", "Failed to open the file as WAV file: ", NoWarning, lang_id,
                0, 0, <<>>, NoOutput)
    ELSE IF wav_format_error(wav, params0) # NoError THEN
        Outcome("stop", wav_format_error(wav, params0), NoWarning, lang_id,
                1, 0, <<>>, NoOutput)
    ELSE
    LET n        == wav.totalPCMFrameCount
        is_multi == lang_id \o <<EngineCall("whisper_is_multilingual", ctx)>>
    IN
    IF ctx = NULL THEN
        Outcome("crash", "whisper_is_multilingual on a null context", NoWarning,
                is_multi, 1, 1, <<>>, NoOutput)
    ELSE
    LET fb       == multilingual_fallback(whisper_is_multilingual(ctx), params0)
        params   == fb.params
        wparams  == full_params(params, token_timestamps, trace)
        decode   == is_multi \o <<DecodeCall(ctx, wparams, n, params.n_processors)>>
        segments == DecodedSegments(ctx, engine.shape, wparams.print_special)
    IN
    IF decode_failed(engine.ret) THEN
        Outcome("stop", "failed to process audio", fb.warnings, decode, 1, 1,
                segments, NoOutput)
    ELSE
        Outcome("ok", "", fb.warnings,
                decode \o <<EngineCall("whisper_full_n_segments", ctx)>>, 1, 1,
                segments,
                <<encode_output(segments, ctx, params, wav.path, offset, duration,
                                token_timestamps)>>)

(***************************************************************************)
(* The R session: handles are loaded, dropped and garbage-collected, and   *)
(* whisper_encode is called on a handle the session still holds.           *)
(***************************************************************************)
IdleCall == [phase |-> "idle"]
NoTs     == [phase |-> "unused"]
NoCb     == [phase |-> "unused"]

LiveHandles == {h \in 1..Len(handles) : ~handles[h].collected}

\* What the engine can do once the decode is entered: succeed with a decode
\* of some shape, or fail with a non-zero code.
EngineBehaviours(shapes) ==
    [ret : {0}, shape : shapes] \cup [ret : {-1, 1}, shape : {<<>>}]

NoEngine == [ret |-> 0, shape |-> <<>>]

DecodeCalls(outcome) ==
    {k \in 1..Len(outcome.engine_calls) :
        outcome.engine_calls[k].fn = "whisper_full_parallel"}

\* whisper_load_model(path): whisper_init returns r
LoadModel ==
    /\ call.phase = "idle"
    /\ Len(handles) < MaxHandles
    /\ \E r \in WhisperInitResults :
        /\ handles' = Append(handles, whisper_load_model(r))
        /\ freeCalls' = Append(freeCalls, 0)
    /\ UNCHANGED <<call, ts, cb>>

\* The session drops handle h and R's garbage collector destroys the external
\* pointer; its finalizer, if one was registered, deletes the WhisperModel.
CollectHandle ==
    /\ call.phase = "idle"
    /\ \E h \in LiveHandles :
        /\ handles' = [handles EXCEPT ![h].collected = TRUE]
        /\ freeCalls' = IF handles[h].finalizer
                        THEN WhisperModel_destructor(freeCalls, h)
                        ELSE freeCalls
    /\ UNCHANGED <<call, ts, cb>>

\* One call of whisper_encode, start to end.  duration, offset, n_threads and
\* n_processors are passed at their defaults.
Encode(shapes, traces) ==
    /\ call.phase = "idle"
    /\ \E behaviours \in {EngineBehaviours(shapes)} :
       \E h \in LiveHandles, wav \in WavFiles, language \in Languages,
          token_timestamps \in BOOLEAN, translate \in BOOLEAN,
          print_special \in BOOLEAN, trace \in traces :
        LET run(engine) == whisper_encode(handles[h], wav, language, token_timestamps, translate, print_special, 0, 0, trace, 1, 1, engine)
            reached == DecodeCalls(run(NoEngine)) # {}
        IN  \E engine \in (IF reached THEN behaviours ELSE {NoEngine}) :
                call' = [phase |-> "returned", h |-> h, wav |-> wav,
                         language |-> language, token_timestamps |-> token_timestamps,
                         translate |-> translate, print_special |-> print_special,
                         trace |-> trace, engine |-> engine,
                         outcome |-> run(engine)]
    /\ UNCHANGED <<handles, freeCalls, ts, cb>>

\* The session takes the call's result (or its error) and goes on.
Return ==
    /\ call.phase = "returned"
    /\ call.outcome.status # "crash"
    /\ call' = IdleCall
    /\ UNCHANGED <<handles, freeCalls, ts, cb>>

\* In the session the engine decodes nothing, an empty segment, or a segment
\* of one token.
SessionShapes == {<<>>, <<<<>>>>, <<<<"text">>>>, <<<<"special">>>>}
EncodeInSession == Encode(SessionShapes, BOOLEAN)

Init ==
    /\ handles = <<>>
    /\ freeCalls = <<>>
    /\ call = IdleCall
    /\ ts = NoTs
    /\ cb = NoCb

Next == LoadModel \/ CollectHandle \/ EncodeInSession \/ Return

Spec == Init /\ [][Next]_vars

\* whisper_encode on its own, over every decode shape: the session holds one
\* handle of each kind, and the realtime trace is off (the segment callback
\* is registered).
InitEncode ==
    /\ handles = [h \in 1..3 |->
                    whisper_load_model(<<"ctx_en_only", "ctx_multilingual", NULL>>[h])]
    /\ freeCalls = [h \in 1..3 |-> 0]
    /\ call = IdleCall
    /\ ts = NoTs
    /\ cb = NoCb

EncodeAnyDecode == Encode(DecodeShapes, {FALSE})

NextEncode == EncodeAnyDecode \/ Return

SpecEncode == InitEncode /\ [][NextEncode]_vars

(***************************************************************************)
(* to_timestamp on its own: applied to every tick of TickInputs.           *)
(***************************************************************************)
\* 5 s, 1 min, 1 h, the last tick of a day, 100 h
TickInputs == 0..MaxTick \cup {500, 6000, 360000, 8639999, 36000000}

InitTimestamp ==
    /\ handles = <<>>
    /\ freeCalls = <<>>
    /\ call = IdleCall
    /\ ts \in [phase : {"input"}, t : TickInputs]
    /\ cb = NoCb

ToTimestamp ==
    /\ ts.phase = "input"
    /\ ts' = [phase |-> "done", t |-> ts.t, out |-> to_timestamp(ts.t)]
    /\ UNCHANGED <<handles, freeCalls, call, cb>>

NextTimestamp == ToTimestamp

SpecTimestamp == InitTimestamp /\ [][NextTimestamp]_vars

(***************************************************************************)
(* whisper_print_segment_callback (lines 90-182).                          *)
(*                                                                         *)
(* A channel buffer is given by one sample value (int16 scale) per 10 ms   *)
(* block: all samples of a block are equal.  The sum of |sample| over a    *)
(* span is exact in double arithmetic at these sizes, and 1.1*x is         *)
(* compared as 11*x against 10*y.                                          *)
(***************************************************************************)
BlockLen == WHISPER_SAMPLE_RATE \div 100

Abs(x) == IF x < 0 THEN -x ELSE x

\* pcmf32s[c][j], c and j from 0
Sample(pcmf32s, c, j) == pcmf32s[c + 1][(j \div BlockLen) + 1]

\* lines 138-144: the sum of |sample| of channel c over the indices j with
\* is0 <= j < is1 (nothing when is1 <= is0).  The loop's additions are grouped
\* by halves of the span, which keeps the evaluation shallow; the sum is the
\* same, every partial sum being exact.
RECURSIVE energy_loop(_, _, _, _)
energy_loop(pcmf32s, c, is0, is1) ==
    IF ~(is0 < is1) THEN 0
    ELSE IF is0 + 1 = is1 THEN Abs(Sample(pcmf32s, c, is0))
    ELSE LET mid == (is0 + is1) \div 2
         IN  energy_loop(pcmf32s, c, is0, mid) + energy_loop(pcmf32s, c, mid, is1)

\* A slip that tests both channels against the plain sum, so that the 10%
\* margin applies to speaker 0 only.
speaker_of_no_margin_for_1(energy0, energy1) ==
    IF 10 * energy0 > 11 * energy1 THEN "(speaker 0)"
    ELSE IF energy1 > energy0 THEN "(speaker 1)"
    ELSE "(speaker ?)"

\* lines 146-152
speaker_of(energy0, energy1) ==
    IF 10 * energy0 > 11 * energy1 THEN "(speaker 0)"
    ELSE IF 10 * energy1 > 11 * energy0 THEN "(speaker 1)"
    ELSE "(speaker ?)"

\* lines 130-155: the speaker label of a segment spanning ticks t0..t1
segment_speaker(params, pcmf32s, t0, t1) ==
    IF params.diarize /\ Len(pcmf32s) = 2
    THEN LET n_samples == Len(pcmf32s[1]) * BlockLen
             is0 == timestamp_to_sample(t0, n_samples)
             is1 == timestamp_to_sample(t1, n_samples)
         IN  speaker_of(energy_loop(pcmf32s, 0, is0, is1),
                        energy_loop(pcmf32s, 1, is0, is1))
    ELSE ""

\* lines 116, 170: the palette index of a token of probability p_num/p_den:
\* max(0, min(k_colors.size(), (int) (pow(p, 3) * k_colors.size())))
token_col(p_num, p_den) ==
    Max(0, Min(k_colors_size, (p_num * p_num * p_num * k_colors_size)
                                  \div (p_den * p_den * p_den)))

\* lines 105-119, 159-173: the coloured pieces printed for the tokens of a
\* segment, from token j on; each piece records the palette index it read.
RECURSIVE colour_loop(_, _, _, _, _)
colour_loop(tokens, j, params, eot, speaker) ==
    IF ~(j < Len(tokens)) THEN <<>>
    ELSE LET token == tokens[j + 1]
             col   == token_col(token.p_num, token.p_den)
         IN  IF params.print_special = FALSE /\ token.id >= eot
             THEN colour_loop(tokens, j + 1, params, eot, speaker)
             ELSE <<[speaker |-> speaker, col |-> col, text |-> token.text]>>
                      \o colour_loop(tokens, j + 1, params, eot, speaker)

\* lines 102-181: what is printed for segment i (from 0).  speaker is the
\* segment's label ("" when none is computed); with colours it is printed in
\* front of every token, without them once in front of the text.
print_segment(segments, i, params, pcmf32s, eot) ==
    LET seg == segments[i + 1]
    IN  IF params.no_timestamps
        THEN IF params.print_colors
             THEN [stamp |-> "", speaker |-> "", text |-> "",
                   pieces |-> colour_loop(seg.tokens, 0, params, eot, "")]
             ELSE [stamp |-> "", speaker |-> "", text |-> seg.text, pieces |-> <<>>]
        ELSE LET speaker == segment_speaker(params, pcmf32s, seg.t0, seg.t1)
                 stamp   == "[" \o to_timestamp(seg.t0) \o " --> "
                                \o to_timestamp(seg.t1) \o "]  "
             IN  IF params.print_colors
                 THEN [stamp |-> stamp, speaker |-> speaker, text |-> "",
                       pieces |-> colour_loop(seg.tokens, 0, params, eot, speaker)]
                 ELSE [stamp |-> stamp, speaker |-> speaker, text |-> seg.text,
                       pieces |-> <<>>]

\* whisper_print_segment_callback: the last n_new segments are printed, after
\* an empty line when they are the first ones.
whisper_print_segment_callback(segments, eot, n_new, params, pcmf32s) ==
    LET n_segments == Len(segments)
        s0 == n_segments - n_new
    IN  [leading_newline |-> (s0 = 0),
         printed |-> [k \in 1..n_new |->
                         print_segment(segments, s0 + k - 1, params, pcmf32s, eot)]]

\* The palette indices a callback run read k_colors at, in order.
RECURSIVE PiecesOf(_)
PiecesOf(printed) ==
    IF printed = <<>> THEN <<>> ELSE Head(printed).pieces \o PiecesOf(Tail(printed))

k_colors_reads(out) == [k \in 1..Len(PiecesOf(out.printed)) |-> PiecesOf(out.printed)[k].col]

\* Sample values of a block (int16 scale); |-11| against 10 is exactly 10% more.
Amplitudes == {0, 10, -11}

\* Two channel buffers of equal length, 0..MaxBlocks blocks each.
StereoBuffers ==
    UNION {[1..2 -> [1..n -> Amplitudes]] : n \in 0..MaxBlocks}

TickSpans == {<<t0, t1>> \in (0..MaxSegTick) \X (0..MaxSegTick) : t0 <= t1}

CallbackEot == whisper_token_eot("ctx_en_only")

CbToken(kind, p_num, j) ==
    [id   |-> IF kind = "text" THEN CallbackEot - 1 ELSE CallbackEot,
     text |-> IF kind = "text" THEN " w" \o Digit(j) ELSE "[_EOT_]",
     p_num |-> p_num, p_den |-> PDen]

CbSegment(t0, t1, tokens) ==
    [t0 |-> t0, t1 |-> t1, tokens |-> tokens,
     text |-> SegmentText(tokens, CallbackEot, FALSE)]

EarlierSegment == CbSegment(0, 0, <<CbToken("text", PDen - 1, 0)>>)

CallbackParams(no_timestamps, print_colors, print_special, diarize) ==
    [whisper_params EXCEPT
        !.no_timestamps = no_timestamps, !.print_colors = print_colors,
        !.print_special = print_special, !.diarize = diarize]

CallbackInput(params, pcmf32s, segments, n_new) ==
    [phase |-> "input", params |-> params, pcmf32s |-> pcmf32s,
     segments |-> segments, n_new |-> n_new]

\* Inputs that vary the channel buffers and the segment's span, with
\* diarization and timestamps on; and, for every setting of the flags, a run
\* without channel buffers and one with channel 0 alone carrying signal.
DiarizeInputs ==
    {CallbackInput(CallbackParams(FALSE, pc, FALSE, TRUE), pcm,
                   <<CbSegment(span[1], span[2], <<CbToken("text", PDen - 1, 0)>>)>>, 1) :
        pc \in BOOLEAN, pcm \in StereoBuffers, span \in TickSpans}
    \cup
    {CallbackInput(CallbackParams(nt, pc, FALSE, d), pcm,
                   <<CbSegment(0, 1, <<CbToken("text", PDen - 1, 0)>>)>>, 1) :
        nt \in BOOLEAN, pc \in BOOLEAN, d \in BOOLEAN,
        pcm \in {<<>>, <<<<10>>, <<0>>>>}}

\* A token is ordinary text of probability 0, 1/PDen, ..., 1, or a special
\* token of probability 1.
CbTokens == [kind : {"text"}, p_num : 0..PDen] \cup [kind : {"special"}, p_num : {PDen}]

CbTokenLists ==
    UNION {{[j \in 1..n |-> CbToken(toks[j].kind, toks[j].p_num, j)] :
                toks \in [1..n -> CbTokens]} : n \in 0..MaxCbTokens}

\* Inputs that vary the tokens, their probabilities and the number of new
\* segments.
ColourInputs ==
    {CallbackInput(CallbackParams(nt, pc, ps, FALSE), <<>>,
                   earlier \o <<CbSegment(0, 1, tokens)>>, n_new) :
        nt \in BOOLEAN, pc \in BOOLEAN, ps \in BOOLEAN,
        earlier \in {<<>>, <<EarlierSegment>>}, tokens \in CbTokenLists,
        n_new \in 1..2}

CallbackInputs ==
    DiarizeInputs \cup {c \in ColourInputs : c.n_new <= Len(c.segments)}

InitCallback ==
    /\ handles = <<>>
    /\ freeCalls = <<>>
    /\ call = IdleCall
    /\ ts = NoTs
    /\ cb \in CallbackInputs

\* One run of the callback.  Reading k_colors past its end is undefined: the
\* run either prints whatever is found there or ends the session.
PrintSegments ==
    /\ cb.phase = "input"
    /\ \E out \in {whisper_print_segment_callback(cb.segments, CallbackEot, cb.n_new, cb.params, cb.pcmf32s)} :
        LET out_of_bounds == \E col \in Range(k_colors_reads(out)) : col >= k_colors_size
        IN  \E status \in (IF out_of_bounds THEN {"garbage printed", "crash"}
                                            ELSE {"printed"}) :
                cb' = [cb EXCEPT !.phase = "done"] @@ [out |-> out, status |-> status]
    /\ UNCHANGED <<handles, freeCalls, call, ts>>

NextCallback == PrintSegments

SpecCallback == InitCallback /\ [][NextCallback]_vars

(***************************************************************************)
(* Claims about the session and about whisper_encode.                      *)
(***************************************************************************)
Returned == call.phase = "returned"

\* The context of the handle the last call was made on.
CallCtx == handles[call.h].wp.ctx

\* C1: every model handle created by whisper_load_model is released exactly
\* once: once the handle has been destroyed by the garbage collector,
\* whisper_free has been called on its context exactly one time (and it is
\* never called twice).
C1_FreedExactlyOnce ==
    \A h \in 1..Len(handles) :
        /\ freeCalls[h] <= 1
        /\ handles[h].collected => freeCalls[h] = 1

\* C2: whisper_load_model never returns a handle whose context is absent, so
\* whisper_encode never calls an engine function on a missing context.
C2_NoHandleWithoutContext ==
    /\ \A h \in 1..Len(handles) : handles[h].wp.ctx # NULL
    /\ Returned =>
        \A k \in 1..Len(call.outcome.engine_calls) :
            call.outcome.engine_calls[k].ctx # NULL

\* The WAV file opened and its format is not mono/stereo, 16 kHz, 16 bit.
BadWavFormat(wav) ==
    /\ wav.opens
    /\ \/ wav.channels \notin {1, 2}
       \/ wav.sampleRate # 16000
       \/ wav.bitsPerSample # 16

ValidationMessages ==
    {"Unknown language", "WAV file must be mono or stereo: ",
     "WAV file must be 16 kHz: ", "WAV file must be 16 bit: "}

\* C3: for every input WAV whose channel count is not 1 or 2, or whose sample
\* rate is not 16 kHz, or whose bit depth is not 16, the call fails with a
\* validation error and whisper_full_parallel is never invoked in that call.
C3_BadWavFailsBeforeDecode ==
    (Returned /\ BadWavFormat(call.wav)) =>
        /\ call.outcome.status = "stop"
        /\ call.outcome.message \in ValidationMessages
        /\ DecodeCalls(call.outcome) = {}
        /\ call.outcome.output = NoOutput

\* C3's case: a 3-channel file, a 44.1 kHz file and an 8-bit file were each
\* rejected with the message of their own check.
C3_Witness ==
    /\ Returned
    /\ BadWavFormat(call.wav)
    /\ call.outcome.status = "stop"
    /\ \/ call.wav.channels = 3 /\ call.outcome.message = "WAV file must be mono or stereo: "
       \/ call.wav.channels = 2 /\ call.wav.sampleRate = 44100
            /\ call.outcome.message = "WAV file must be 16 kHz: "
    /\ handles[call.h].wp.ctx # NULL
    /\ whisper_lang_id(call.language) # -1

\* C4: when the decode returns a non-zero code, whisper_encode stops with the
\* message "failed to process audio", has called the decode exactly once and
\* returns nothing; and whenever a list is returned the decode returned 0.
C4_DecodeFailureStops ==
    Returned =>
        /\ (DecodeCalls(call.outcome) # {} /\ call.engine.ret # 0) =>
              /\ call.outcome.status = "stop"
              /\ call.outcome.message = "failed to process audio"
              /\ Cardinality(DecodeCalls(call.outcome)) = 1
              /\ call.outcome.output = NoOutput
        /\ call.outcome.output # NoOutput =>
              /\ call.outcome.status = "ok"
              /\ call.engine.ret = 0
              /\ Cardinality(DecodeCalls(call.outcome)) = 1

\* C4's case: the decode was entered and returned a positive code.
C4_Witness ==
    /\ Returned
    /\ DecodeCalls(call.outcome) # {}
    /\ call.engine.ret = 1
    /\ call.outcome.message = "failed to process audio"

\* The decode call of the last whisper_encode call.
TheDecodeCall ==
    call.outcome.engine_calls[CHOOSE k \in DecodeCalls(call.outcome) : TRUE]

\* The request is overridden: the model is not multilingual and the caller
\* asked for another language than "en" or for translation.
Overridden ==
    /\ CallCtx # "ctx_multilingual"
    /\ call.language # "en" \/ call.translate

\* C5: when the model is not multilingual and the caller requests a language
\* other than "en" or translation, whisper_encode warns without failing,
\* passes language "en" and translate = false to the engine and reports them
\* in the returned metadata; otherwise language and translate are passed and
\* reported as requested and no warning is emitted.
C5_MultilingualFallback ==
    (Returned /\ DecodeCalls(call.outcome) # {}) =>
        LET wparams  == TheDecodeCall.wparams
            language == IF Overridden THEN "en" ELSE call.language
            translate == IF Overridden THEN FALSE ELSE call.translate
        IN  /\ call.outcome.warnings =
                  (IF Overridden THEN <<MultilingualWarning>> ELSE <<>>)
            /\ wparams.language = language
            /\ wparams.translate = translate
            /\ call.engine.ret = 0 =>
                  /\ call.outcome.status = "ok"
                  /\ call.outcome.output[1].params.language = language
                  /\ call.outcome.output[1].params.translate = translate

\* C5's case: translation into English was requested from an English-only
\* model, and the call returned its result with the warning.
C5_Witness ==
    /\ Returned
    /\ call.outcome.status = "ok"
    /\ CallCtx = "ctx_en_only"
    /\ call.translate
    /\ call.language = "nl"
    /\ call.outcome.warnings = <<MultilingualWarning>>
    /\ call.outcome.output[1].params.translate = FALSE

\* The tokens of all segments, in engine order, as <<segment number, token>>.
RECURSIVE EngineTokens(_, _)
EngineTokens(segments, i) ==
    IF i > Len(segments) THEN <<>>
    ELSE [j \in 1..Len(segments[i].tokens) |-> <<i, segments[i].tokens[j]>>]
             \o EngineTokens(segments, i + 1)

\* The engine tokens the token table must hold: all of them when special
\* tokens are printed, else those whose id is below the end-of-text sentinel.
ExpectedTokenRows ==
    SelectSeq(EngineTokens(call.outcome.ctx_segments, 1),
              LAMBDA it : call.print_special \/ it[2].id < whisper_token_eot(CallCtx))

TimestampColumns == {"token_from", "token_to"}

\* C6: the token table holds, in engine order, exactly one row per engine
\* token whose id is below the end-of-text sentinel when print_special is
\* false, and one row per engine token when it is true; the token_from and
\* token_to columns are present exactly when token_timestamps is requested,
\* and then have one entry per token row.
C6_TokenTable ==
    (Returned /\ call.outcome.status = "ok") =>
        LET tokens == call.outcome.output[1].tokens
            rows   == ExpectedTokenRows
        IN  /\ Len(tokens.segment) = Len(rows)
            /\ tokens.token = [k \in 1..Len(rows) |-> rows[k][2].text]
            /\ tokens.token_prob = [k \in 1..Len(rows) |-> rows[k][2].p]
            /\ DOMAIN tokens = {"segment", "token", "token_prob"}
                   \cup (IF call.token_timestamps THEN TimestampColumns ELSE {})
            /\ call.token_timestamps =>
                  /\ Len(tokens.token_from) = Len(rows)
                  /\ Len(tokens.token_to) = Len(rows)

\* C6's case: special tokens are not printed, the decode holds a special
\* token followed by a text token, and token timestamps are requested.
C6_Witness ==
    /\ Returned
    /\ call.outcome.status = "ok"
    /\ ~call.print_special
    /\ call.token_timestamps
    /\ call.engine.shape = <<<<"special", "text">>, <<"text">>>>
    /\ Len(call.outcome.output[1].tokens.token_from) = 2

\* C9: the segment table has exactly n_segments rows numbered 1..n_segments
\* in engine emission order (row i holds engine segment i-1), and every
\* token row's segment number is the number of the segment the token was
\* read from.
C9_RowsInEngineOrder ==
    (Returned /\ call.outcome.status = "ok") =>
        LET out      == call.outcome.output[1]
            segments == call.outcome.ctx_segments
            n        == Len(segments)
        IN  /\ out.n_segments = n
            /\ out.data.segment = [i \in 1..n |-> i]
            /\ out.data.text = [i \in 1..n |-> segments[i].text]
            /\ out.data.from = [i \in 1..n |-> to_timestamp(segments[i].t0)]
            /\ out.data.to = [i \in 1..n |-> to_timestamp(segments[i].t1)]
            /\ \A k \in 1..Len(out.tokens.segment) :
                  /\ out.tokens.segment[k] \in 1..n
                  /\ \E j \in 1..Len(segments[out.tokens.segment[k]].tokens) :
                        LET token == segments[out.tokens.segment[k]].tokens[j]
                        IN  /\ token.text = out.tokens.token[k]
                            /\ token.p = out.tokens.token_prob[k]
            /\ \A k \in 1..(Len(out.tokens.segment) - 1) :
                  out.tokens.segment[k] <= out.tokens.segment[k + 1]

\* C9's case: two segments were decoded, the first without tokens, and the
\* token rows all belong to segment 2.
C9_Witness ==
    /\ Returned
    /\ call.outcome.status = "ok"
    /\ call.engine.shape = <<<<>>, <<"text", "text">>>>
    /\ call.outcome.output[1].data.segment = <<1, 2>>
    /\ call.outcome.output[1].tokens.segment = <<2, 2>>

(***************************************************************************)
(* Claims about to_timestamp.                                              *)
(***************************************************************************)
DigitValue(c) == CHOOSE d \in 0..9 : Digit(d) = c

\* The number a string of decimal digits denotes.
RECURSIVE Number(_)
Number(s) ==
    IF Len(s) = 0 THEN 0
    ELSE 10 * Number(SubSeq(s, 1, Len(s) - 1)) + DigitValue(SubSeq(s, Len(s), Len(s)))

IsDigits(s) == \A k \in 1..Len(s) : \E d \in 0..9 : Digit(d) = SubSeq(s, k, k)

\* out reads H..HH:MM:SS.mmm and denotes msec milliseconds.
ReadsAs(out, msec) ==
    LET n   == Len(out)
        hh  == SubSeq(out, 1, n - 10)
        mm  == SubSeq(out, n - 8, n - 7)
        ss  == SubSeq(out, n - 5, n - 4)
        mmm == SubSeq(out, n - 2, n)
    IN  /\ n >= 12
        /\ SubSeq(out, n - 9, n - 9) = ":"
        /\ SubSeq(out, n - 6, n - 6) = ":"
        /\ SubSeq(out, n - 3, n - 3) = "."
        /\ IsDigits(hh) /\ IsDigits(mm) /\ IsDigits(ss) /\ IsDigits(mmm)
        /\ Number(mm) < 60
        /\ Number(ss) < 60
        /\ ((Number(hh) * 60 + Number(mm)) * 60 + Number(ss)) * 1000 + Number(mmm) = msec

\* C7 as stated: to_timestamp(0) = "00:00:00.000", to_timestamp(500) =
\* "00:00:05.000" and to_timestamp(6000) = "01:00:00.000".
C7_ExamplesAsStated ==
    ts.phase = "done" =>
        /\ ts.t = 0 => ts.out = "00:00:00.000"
        /\ ts.t = 500 => ts.out = "00:00:05.000"
        /\ ts.t = 6000 => ts.out = "01:00:00.000"

\* C7, amended: to_timestamp formats a tick count (1 tick = 10 ms) as
\* HH:MM:SS.mmm, with minutes and seconds below 60 and twelve characters for
\* less than 100 hours; to_timestamp(0) = "00:00:00.000", to_timestamp(500) =
\* "00:00:05.000" and to_timestamp(6000) = "00:01:00.000" (6000 ticks are one
\* minute; "01:00:00.000" is to_timestamp(360000)).
C7_TimestampFormat ==
    ts.phase = "done" =>
        /\ ReadsAs(ts.out, 10 * ts.t)
        /\ ts.t < 36000000 => Len(ts.out) = 12
        /\ ts.t = 0 => ts.out = "00:00:00.000"
        /\ ts.t = 500 => ts.out = "00:00:05.000"
        /\ ts.t = 6000 => ts.out = "00:01:00.000"
        /\ ts.t = 360000 => ts.out = "01:00:00.000"

\* C7's case: 6000 ticks have been formatted.
C7_Witness ==
    /\ ts.phase = "done"
    /\ ts.t = 6000
    /\ ts.out = "00:01:00.000"

(***************************************************************************)
(* Claims about whisper_print_segment_callback.                            *)
(***************************************************************************)
CallbackDone == cb.phase = "done"

\* Diarization is enabled and exactly two channel buffers are present.
Diarizing == cb.params.diarize /\ Len(cb.pcmf32s) = 2

Clamp(x, lo, hi) == IF x < lo THEN lo ELSE IF x > hi THEN hi ELSE x

\* sample_index = clamp(tick * sample_rate / 100, 0, n_samples - 1)
SampleIndex(tick, n_samples) == Clamp((tick * 16000) \div 100, 0, n_samples - 1)

\* Sum of |sample| of a channel over the sample indices is0 .. is1 - 1, block
\* by block: a block's value times the number of its samples in the span.
SpanEnergy(channel, is0, is1) ==
    LET Inside(b) == Cardinality({j \in is0..(is1 - 1) : j \div 160 = b - 1})
        Sum[b \in 0..Len(channel)] ==
            IF b = 0 THEN 0 ELSE Sum[b - 1] + Abs(channel[b]) * Inside(b)
    IN  Sum[Len(channel)]

\* The label the energies of the two channels over ticks t0..t1 call for.
ExpectedLabel(pcmf32s, t0, t1) ==
    LET n  == 160 * Len(pcmf32s[1])
        e0 == SpanEnergy(pcmf32s[1], SampleIndex(t0, n), SampleIndex(t1, n))
        e1 == SpanEnergy(pcmf32s[2], SampleIndex(t0, n), SampleIndex(t1, n))
    IN  IF 10 * e0 > 11 * e1 THEN "(speaker 0)"
        ELSE IF 10 * e1 > 11 * e0 THEN "(speaker 1)"
        ELSE "(speaker ?)"

SwapLabel(label) ==
    CASE label = "(speaker 0)" -> "(speaker 1)"
      [] label = "(speaker 1)" -> "(speaker 0)"
      [] OTHER -> label

\* The segments a callback run printed, with what was printed for each.
PrintedSegments ==
    {<<cb.segments[Len(cb.segments) - cb.n_new + k], cb.out.printed[k]>> :
        k \in 1..cb.n_new}

\* The labels of the printed segments are the ones the channel energies call
\* for, every coloured piece carries its segment's label, and the run with
\* the two channels swapped gives the swapped labels.
LabelsFollowEnergy ==
    /\ \A sp \in PrintedSegments :
          /\ sp[2].speaker = ExpectedLabel(cb.pcmf32s, sp[1].t0, sp[1].t1)
          /\ \A k \in 1..Len(sp[2].pieces) : sp[2].pieces[k].speaker = sp[2].speaker
    /\ LET swapped == whisper_print_segment_callback(
                          cb.segments, CallbackEot, cb.n_new, cb.params,
                          <<cb.pcmf32s[2], cb.pcmf32s[1]>>)
       IN  \A k \in 1..cb.n_new :
               swapped.printed[k].speaker = SwapLabel(cb.out.printed[k].speaker)

C11_WavClosedOnEveryExit ==
    (Returned /\ call.wav.opens /\ call.outcome.wav_inits = 1) =>
        call.outcome.wav_uninits = 1

====
